---- MODULE Spec2Model ----
(***************************************************************************)
(* A model of three parts of the repository:                               *)
(*   - internal/graphics/framebuffer.go : Framebuffer over an OpenGL       *)
(*     context (the context is an external driver, modelled by its calls   *)
(*     and by the little state the calls are judged against);              *)
(*   - the restorable Image (NewImage, clearImage, ClearPixels);           *)
(*   - the gamepad database generator (splitDBsByPlatform, run).           *)
(* Each part has its own specification; the variables of the other parts   *)
(* stay at their initial values.                                           *)
(***************************************************************************)
EXTENDS Integers, Sequences, FiniteSets, TLC

VARIABLES
    fbs,          \* the Framebuffer objects created so far, in creation order
    driverLive,   \* driver: native framebuffer handles allocated and not deleted
    fbLast,       \* the last Framebuffer operation: its driver calls and results
    images,       \* the restorable Images created so far, in creation order
    queue,        \* the commands issued on the underlying images, in order
    imgLast,      \* the last restorable operation and its outcome
    imgStatus,    \* "running", or "panicked" once an operation has panicked
    gameControllerDB, \* the embedded gamecontrollerdb.txt, a sequence of bytes
    controllerDBs,    \* the map splitDBsByPlatform last returned
    splitErr,     \* the error splitDBsByPlatform last returned
    runResult,    \* the error run() returned, "none" before it ran
    written,      \* the platforms whose files run() has written
    phase         \* the generator's position: "input", "split", "ran"

fbVars  == <<fbs, driverLive, fbLast>>
imgVars == <<images, queue, imgLast, imgStatus>>
dbVars  == <<gameControllerDB, controllerDBs, splitErr, runResult, written,
            phase>>
vars    == <<fbVars, imgVars, dbVars>>

--------------------------------------------------------------------------
(* Bounds of the model. *)

MaxFramebuffers == 2

\* (width, height) arguments of NewZeroFramebuffer: any integers.
ZeroSizes == {<<3, 2>>, <<0, -1>>}

\* The textures a framebuffer is made from, or drawn: native handle and size.
Textures == {[native |-> 1, width |-> 3, height |-> 2],
             [native |-> 2, width |-> 1, height |-> 5]}

\* The textures given to DrawTexture.
DrawnTextures == {t \in Textures : t.native = 2}

\* The handles the driver hands out for new framebuffers.
NativeHandles == {1, 2}

\* color.Color values by their RGBA() result (16 bits a channel).
Colors == {<<65535, 0, 0, 32768>>}

--------------------------------------------------------------------------
(* internal/graphics/framebuffer.go *)

\* opengl.ZeroFramebuffer, the default framebuffer; also the zero value of
\* the native field that NewZeroFramebuffer leaves unset.
ZeroFramebuffer == 0

NoError == "nil"

RECURSIVE pow2AtLeast(_, _)
pow2AtLeast(r, x) == IF r >= x THEN r ELSE pow2AtLeast(2 * r, x)

\* graphics.NextPowerOf2Int32: the smallest power of two >= x; 0 for x <= 0.
NextPowerOf2Int32(x) == IF x <= 0 THEN 0 ELSE pow2AtLeast(1, x)

\* A float64 quotient, kept as <<numerator, denominator>>.
Quot(a, b) == <<a, b>>
QuotAdd(p, q) == <<p[1] * q[2] + q[1] * p[2], p[2] * q[2]>>
QuotMul(p, k) == <<p[1] * k, p[2]>>

\* The entries of the 4x4 matrix that depend on the arguments.
orthoProjectionMatrix(left, right, bottom, top) ==
    [e11 |-> Quot(2, right - left),
     e22 |-> Quot(2, top - bottom),
     e14 |-> QuotMul(Quot(right + left, right - left), -1),
     e24 |-> QuotMul(Quot(top + bottom, top - bottom), -1)]

\* NewZeroFramebuffer: the Framebuffer it returns (the error is always nil).
\* proMatrix is <<>> for a nil pointer and <<m>> for a matrix m.
NewZeroFramebuffer(width, height) ==
    [native |-> ZeroFramebuffer, width |-> width, height |-> height,
     flipY |-> TRUE, proMatrix |-> <<>>]

\* NewFramebufferFromTexture, given what the driver's NewFramebuffer returned
\* (handle f, error err): the driver call, the Framebuffer (<<>> for nil,
\* <<r>> for a Framebuffer r) and the error returned.
NewFramebufferFromTexture(texture, f, err) ==
    LET call == [call |-> "NewFramebuffer", texture |-> texture.native,
                 err |-> err]
    IN  IF err # NoError
        THEN [calls |-> <<call>>, fb |-> <<>>, err |-> err]
        ELSE [calls |-> <<call>>,
              fb |-> <<[native |-> f, width |-> texture.width,
                        height |-> texture.height, flipY |-> FALSE,
                        proMatrix |-> <<>>]>>,
              err |-> NoError]

\* A faulty Size: the internal (power of two) size, as Pixels reads.
SizeInternal(f) ==
    <<NextPowerOf2Int32(f.width), NextPowerOf2Int32(f.height)>>

\* Framebuffer.Size
Size(f) == <<f.width, f.height>>

\* A faulty Dispose: without the test for the default framebuffer.
DisposeAlwaysDeletes(f) ==
    <<[call |-> "DeleteFramebuffer", native |-> f.native]>>

\* Framebuffer.Dispose: the driver calls it issues.
Dispose(f) ==
    IF f.native = ZeroFramebuffer
    THEN <<>>
    ELSE <<[call |-> "DeleteFramebuffer", native |-> f.native]>>

\* A faulty setAsViewport: it binds the default framebuffer.
setAsViewportDefault(f, err) ==
    [call |-> "SetViewport", native |-> ZeroFramebuffer,
     width |-> NextPowerOf2Int32(f.width),
     height |-> NextPowerOf2Int32(f.height), err |-> err]

\* Framebuffer.setAsViewport: the SetViewport call, with the driver's answer.
setAsViewport(f, err) ==
    [call |-> "SetViewport", native |-> f.native,
     width |-> NextPowerOf2Int32(f.width),
     height |-> NextPowerOf2Int32(f.height), err |-> err]

\* Framebuffer.projectionMatrix: the matrix, computed once and then cached.
projectionMatrix(f) ==
    IF f.proMatrix # <<>>
    THEN f.proMatrix[1]
    ELSE LET width  == NextPowerOf2Int32(f.width)
             height == NextPowerOf2Int32(f.height)
             m == orthoProjectionMatrix(0, width, 0, height)
         IN  IF f.flipY
             THEN [m EXCEPT !.e22 = QuotMul(@, -1),
                            !.e24 = QuotAdd(@, QuotMul(Quot(f.height,
                                              NextPowerOf2Int32(f.height)), 2))]
             ELSE m

\* A faulty Fill: the error of setAsViewport is dropped.
FillIgnoresViewportError(f, clr, vpErr, fillErr) ==
    [calls |-> <<[call |-> "SetViewport", native |-> f.native,
                  width |-> NextPowerOf2Int32(f.width),
                  height |-> NextPowerOf2Int32(f.height), err |-> vpErr],
                 [call |-> "FillFramebuffer",
                  rgba |-> [k \in 1..4 |-> Quot(clr[k], 65535)],
                  err |-> fillErr]>>,
     err |-> fillErr]

\* Framebuffer.Fill, given the driver's answers: the driver calls issued, in
\* order, and the error returned. The colour goes to the driver as the four
\* quotients channel / math.MaxUint16.
Fill(f, clr, vpErr, fillErr) ==
    LET vp == setAsViewport(f, vpErr)
    IN  IF vpErr # NoError
        THEN [calls |-> <<vp>>, err |-> vpErr]
        ELSE [calls |-> <<vp, [call |-> "FillFramebuffer",
                               rgba |-> [k \in 1..4 |-> Quot(clr[k], 65535)],
                               err |-> fillErr]>>,
              err |-> fillErr]

\* Framebuffer.DrawTexture, likewise, with the value of f.proMatrix after it.
\* drawTexture is one call into the drawing code, given the projection matrix.
DrawTexture(f, t, vpErr, drawErr) ==
    LET vp == setAsViewport(f, vpErr)
    IN  IF vpErr # NoError
        THEN [calls |-> <<vp>>, err |-> vpErr, proMatrix |-> f.proMatrix]
        ELSE [calls |-> <<vp, [call |-> "drawTexture", texture |-> t.native,
                               p |-> projectionMatrix(f), err |-> drawErr]>>,
              err |-> drawErr, proMatrix |-> <<projectionMatrix(f)>>]

\* Framebuffer.Pixels
Pixels(f, err) ==
    LET wh == Size(f)
    IN  [calls |-> <<[call |-> "FramebufferPixels", native |-> f.native,
                      width |-> NextPowerOf2Int32(wh[1]),
                      height |-> NextPowerOf2Int32(wh[2]), err |-> err]>>,
         err |-> err]

(* The driver (opengl.Context), as far as the calls above change it. *)

\* The handles named by the DeleteFramebuffer calls among calls.
DeletedBy(calls) ==
    {calls[k].native : k \in {j \in DOMAIN calls :
                                  calls[j].call = "DeleteFramebuffer"}}

(* The operations, one action each. *)

FbErrors(e) == {NoError, e}

\* The driver's answer to a second call matters only if the first succeeded:
\* when the first fails, the second answer is fixed to leave one case.
NotReached(firstErr, secondErr) == firstErr # NoError => secondErr = NoError

\* The record kept of an operation: the Framebuffer it was called on (its
\* index, 0 for none), its arguments, the driver calls it issued, in order,
\* the error it returned and the other values it returned.
FbOp(op, fb, args, calls, err, ret) ==
    [op |-> op, fb |-> fb, args |-> args, calls |-> calls, err |-> err,
     ret |-> ret]

FbIdle == /\ fbs = <<>>
          /\ driverLive = {}
          /\ fbLast = FbOp("none", 0, <<>>, <<>>, NoError, <<>>)

CallNewZeroFramebuffer ==
    /\ Len(fbs) < MaxFramebuffers
    /\ \E wh \in ZeroSizes :
          /\ fbs' = Append(fbs, NewZeroFramebuffer(wh[1], wh[2]))
          /\ fbLast' = FbOp("NewZeroFramebuffer", Len(fbs) + 1, wh, <<>>,
                            NoError, <<>>)
    /\ UNCHANGED driverLive
    /\ UNCHANGED <<imgVars, dbVars>>

\* The driver hands out a handle that is not in use, or fails.
CallNewFramebufferFromTexture ==
    /\ Len(fbs) < MaxFramebuffers
    /\ \E texture \in Textures, err \in FbErrors("errNewFramebuffer") :
       \E f \in IF err = NoError THEN NativeHandles \ driverLive
                ELSE {ZeroFramebuffer} :
          LET r == NewFramebufferFromTexture(texture, f, err)
          IN  /\ fbs' = fbs \o r.fb
              /\ driverLive' = IF err = NoError THEN driverLive \cup {f}
                               ELSE driverLive
              /\ fbLast' = FbOp("NewFramebufferFromTexture",
                                IF r.fb = <<>> THEN 0 ELSE Len(fbs) + 1,
                                <<texture>>, r.calls, r.err, <<>>)
    /\ UNCHANGED <<imgVars, dbVars>>

CallSize ==
    /\ \E i \in DOMAIN fbs :
          fbLast' = FbOp("Size", i, <<>>, <<>>, NoError, Size(fbs[i]))
    /\ UNCHANGED <<fbs, driverLive>>
    /\ UNCHANGED <<imgVars, dbVars>>

CallDispose ==
    /\ \E i \in DOMAIN fbs :
          LET calls == Dispose(fbs[i])
          IN  /\ driverLive' = driverLive \ DeletedBy(calls)
              /\ fbLast' = FbOp("Dispose", i, <<>>, calls, NoError, <<>>)
    /\ UNCHANGED fbs
    /\ UNCHANGED <<imgVars, dbVars>>

CallFill ==
    /\ \E i \in DOMAIN fbs, clr \in Colors,
          vpErr \in FbErrors("errSetViewport"),
          fillErr \in FbErrors("errFillFramebuffer") :
          LET r == Fill(fbs[i], clr, vpErr, fillErr)
          IN  /\ NotReached(vpErr, fillErr)
              /\ fbLast' = FbOp("Fill", i, <<clr>>, r.calls, r.err, <<>>)
    /\ UNCHANGED <<fbs, driverLive>>
    /\ UNCHANGED <<imgVars, dbVars>>

CallDrawTexture ==
    /\ \E i \in DOMAIN fbs, t \in DrawnTextures,
          vpErr \in FbErrors("errSetViewport"),
          drawErr \in FbErrors("errDrawTexture") :
          LET r == DrawTexture(fbs[i], t, vpErr, drawErr)
          IN  /\ NotReached(vpErr, drawErr)
              /\ fbs' = [fbs EXCEPT ![i].proMatrix = r.proMatrix]
              /\ fbLast' = FbOp("DrawTexture", i, <<t>>, r.calls, r.err, <<>>)
    /\ UNCHANGED driverLive
    /\ UNCHANGED <<imgVars, dbVars>>

CallPixels ==
    /\ \E i \in DOMAIN fbs, err \in FbErrors("errFramebufferPixels") :
          LET r == Pixels(fbs[i], err)
          IN  fbLast' = FbOp("Pixels", i, <<>>, r.calls, r.err, <<>>)
    /\ UNCHANGED <<fbs, driverLive>>
    /\ UNCHANGED <<imgVars, dbVars>>

NextFramebuffer ==
    \/ CallNewZeroFramebuffer
    \/ CallNewFramebufferFromTexture
    \/ CallSize
    \/ CallDispose
    \/ CallFill
    \/ CallDrawTexture
    \/ CallPixels

--------------------------------------------------------------------------
(* The restorable Image. *)

\* image.Point, image.Rectangle and the methods used on them.
Pt(x, y) == [X |-> x, Y |-> y]
ZR == [Min |-> Pt(0, 0), Max |-> Pt(0, 0)]

\* image.Rect: the returned rectangle has its minimum and maximum swapped
\* where needed, so that it is well-formed.
Rect(x0, y0, x1, y1) ==
    [Min |-> Pt(IF x0 > x1 THEN x1 ELSE x0, IF y0 > y1 THEN y1 ELSE y0),
     Max |-> Pt(IF x0 > x1 THEN x0 ELSE x1, IF y0 > y1 THEN y0 ELSE y1)]

Dx(r) == r.Max.X - r.Min.X
Dy(r) == r.Max.Y - r.Min.Y
Empty(r) == r.Min.X >= r.Max.X \/ r.Min.Y >= r.Max.Y

\* Rectangle.Intersect: the largest rectangle in both, ZR when it is empty.
Intersect(r, s) ==
    LET c == [Min |-> Pt(IF r.Min.X < s.Min.X THEN s.Min.X ELSE r.Min.X,
                         IF r.Min.Y < s.Min.Y THEN s.Min.Y ELSE r.Min.Y),
              Max |-> Pt(IF r.Max.X > s.Max.X THEN s.Max.X ELSE r.Max.X,
                         IF r.Max.Y > s.Max.Y THEN s.Max.Y ELSE r.Max.Y)]
    IN  IF Empty(c) THEN ZR ELSE c

\* graphicscommand.NewImage: the underlying image, known to the command queue
\* by its id. A logical image has width and height > 0 once created: the call
\* panics otherwise (<<>> stands for the panic).
graphicscommandNewImage(width, height, screen, id) ==
    IF width <= 0 \/ height <= 0
    THEN <<>>
    ELSE <<[id |-> id, width |-> width, height |-> height, screen |-> screen]>>

\* graphicscommand.Image.InternalSize: the size of the backing texture, the
\* next power of two >= the requested size.
InternalSize(i) == <<NextPowerOf2Int32(i.width), NextPowerOf2Int32(i.height)>>

\* graphicscommand.Image.DrawTriangles: the command enqueued, which names its
\* destination; nothing is executed at once.
DrawTriangles(i, srcs, vertices, blend, dstRegion, shader, fillRule) ==
    [dst |-> i.id, srcs |-> srcs, vertices |-> vertices, blend |-> blend,
     dstRegion |-> dstRegion, shader |-> shader, fillRule |-> fillRule]

\* graphics.QuadVerticesFromDstAndSrc: the destination and source corners and
\* the colour that the four vertices are made of.
QuadVerticesFromDstAndSrc(dx0, dy0, dx1, dy1, sx0, sy0, sx1, sy1, cr, cg, cb, ca) ==
    [dst |-> <<dx0, dy0, dx1, dy1>>, src |-> <<sx0, sy0, sx1, sy1>>,
     color |-> <<cr, cg, cb, ca>>]

\* clearImage: the command it enqueues on i. No source image is given.
clearImage(i, region) ==
    DrawTriangles(i, {},
        QuadVerticesFromDstAndSrc(region.Min.X, region.Min.Y, region.Max.X,
                                  region.Max.Y, 0, 0, 0, 0, 0, 0, 0, 0),
        "BlendClear", region, "clearShader", "FillRuleFillAll")

\* A faulty NewImage: it clears the requested size, not the internal one.
NewImageClearsRequestedSize(width, height, screen, id) ==
    LET g == graphicscommandNewImage(width, height, screen, id)
    IN  IF g = <<>>
        THEN <<>>
        ELSE <<[image |-> [Image |-> g[1], width |-> width,
                           height |-> height],
                commands |-> <<clearImage(g[1], Rect(0, 0, width, height))>>]>>

\* NewImage: <<>> when it panics; else the Image returned and the commands
\* enqueued. id is the identity the new underlying image gets.
NewImage(width, height, screen, id) ==
    LET g == graphicscommandNewImage(width, height, screen, id)
    IN  IF g = <<>>
        THEN <<>>
        ELSE LET iwh == InternalSize(g[1])
             IN  <<[image |-> [Image |-> g[1], width |-> width,
                               height |-> height],
                    commands |-> <<clearImage(g[1],
                                              Rect(0, 0, iwh[1], iwh[2]))>>]>>

\* A faulty ClearPixels: without the test of the region's width and height.
ClearPixelsUnchecked(i, region) ==
    <<  <<clearImage(i.Image,
                     Intersect(region, Rect(0, 0, i.width, i.height)))>>  >>

\* A faulty ClearPixels: the region is not clipped to the image.
ClearPixelsUnclipped(i, region) ==
    IF Dx(region) <= 0 \/ Dy(region) <= 0
    THEN <<>>
    ELSE <<  <<clearImage(i.Image, region)>>  >>

\* Image.ClearPixels: <<>> when it panics, else <<commands>> for the commands
\* it enqueues.
ClearPixels(i, region) ==
    IF Dx(region) <= 0 \/ Dy(region) <= 0
    THEN <<>>
    ELSE <<  <<clearImage(i.Image,
                          Intersect(region, Rect(0, 0, i.width, i.height)))>>  >>

(* Bounds and inputs. *)

MaxImages == 2
MaxCommands == 4

\* (width, height) arguments of NewImage.
ImageSizes == {<<2, 2>>, <<3, 1>>, <<0, 2>>}

\* The regions given to ClearPixels: any Min and Max, well-formed or not.
RegionXs == {-1, 1, 3, 4}
RegionYs == {0, 2}
Regions == {[Min |-> Pt(x0, y0), Max |-> Pt(x1, y1)] :
              x0 \in RegionXs, y0 \in RegionYs, x1 \in RegionXs, y1 \in RegionYs}

ImgIdle == /\ images = <<>>
           /\ queue = <<>>
           /\ imgStatus = "running"
           /\ imgLast = [op |-> "none", img |-> 0, args |-> <<>>,
                         outcome |-> "ok", issued |-> 0]

\* An operation that panics changes nothing and ends the program.
CallNewImage ==
    /\ imgStatus = "running"
    /\ Len(images) < MaxImages
    /\ Len(queue) < MaxCommands
    /\ \E wh \in ImageSizes, screen \in BOOLEAN :
          LET r == NewImage(wh[1], wh[2], screen, Len(images) + 1)
              ok == r # <<>>
          IN  /\ images' = IF ok THEN Append(images, r[1].image) ELSE images
              /\ queue' = IF ok THEN queue \o r[1].commands ELSE queue
              /\ imgStatus' = IF ok THEN "running" ELSE "panicked"
              /\ imgLast' = [op |-> "NewImage",
                             img |-> IF ok THEN Len(images) + 1 ELSE 0,
                             args |-> <<wh[1], wh[2], screen>>,
                             outcome |-> IF ok THEN "ok" ELSE "panic",
                             issued |-> IF ok THEN Len(r[1].commands) ELSE 0]
    /\ UNCHANGED <<fbVars, dbVars>>

CallClearPixels ==
    /\ imgStatus = "running"
    /\ Len(queue) < MaxCommands
    /\ \E k \in DOMAIN images, region \in Regions :
          LET r == ClearPixels(images[k], region)
              ok == r # <<>>
          IN  /\ queue' = IF ok THEN queue \o r[1] ELSE queue
              /\ imgStatus' = IF ok THEN "running" ELSE "panicked"
              /\ imgLast' = [op |-> "ClearPixels", img |-> k, args |-> region,
                             outcome |-> IF ok THEN "ok" ELSE "panic",
                             issued |-> IF ok THEN Len(r[1]) ELSE 0]
    /\ UNCHANGED images
    /\ UNCHANGED <<fbVars, dbVars>>

NextRestorable ==
    \/ CallNewImage
    \/ CallClearPixels

--------------------------------------------------------------------------
(* The gamepad database generator. *)
(* A string is a sequence of pieces: "#", ",", the line feed, the carriage  *)
(* return, "platform:" and names, each piece standing for its characters.  *)

LF == "\n"
CR == "\r"

\* A piece that stands for 65535 characters, none of them special.
Filler == "x...x"

\* The number of bytes of a piece and of a string.
PieceLen(piece) ==
    CASE piece \in {"#", ",", LF, CR} -> 1
      [] piece = "platform:" -> 9
      [] piece = "03000000" -> 8
      [] piece = "Windows" -> 7
      [] piece = "Mac OS X" -> 8
      [] piece = "Linux" -> 5
      [] piece = "iOS" -> 3
      [] piece = "Android" -> 7
      [] piece = Filler -> 65535
RECURSIVE ByteLen(_)
ByteLen(str) ==
    IF Len(str) = 0 THEN 0 ELSE PieceLen(Head(str)) + ByteLen(Tail(str))

\* bufio.MaxScanTokenSize, the size the scanner's buffer grows to: a line
\* whose bytes fill it without a line feed among them is too long.
MaxScanTokenSize == 65536

\* The position of the first line feed of data from k on, 0 for none.
RECURSIVE IndexLF(_, _)
IndexLF(data, k) ==
    IF k > Len(data) THEN 0
    ELSE IF data[k] = LF THEN k ELSE IndexLF(data, k + 1)

\* bufio's dropCR: one trailing carriage return is dropped.
dropCR(data) ==
    IF Len(data) > 0 /\ data[Len(data)] = CR
    THEN SubSeq(data, 1, Len(data) - 1)
    ELSE data

\* The texts s.Text() yields over the calls of s.Scan() (bufio.ScanLines),
\* and s.Err() after the last: each line without its end-of-line marker; a
\* last line without a line feed counts if it is not empty; the scan stops
\* with ErrTooLong at a line that is too long.
RECURSIVE Scan(_)
Scan(data) ==
    IF Len(data) = 0 THEN [texts |-> <<>>, err |-> NoError]
    ELSE LET i == IndexLF(data, 1)
             line == IF i > 0 THEN SubSeq(data, 1, i - 1) ELSE data
             rest == IF i > 0 THEN SubSeq(data, i + 1, Len(data)) ELSE <<>>
         IN  IF ByteLen(line) >= MaxScanTokenSize
             THEN [texts |-> <<>>, err |-> "ErrTooLong"]
             ELSE LET r == Scan(rest)
                  IN  [texts |-> <<dropCR(line)>> \o r.texts, err |-> r.err]

\* strings.HasPrefix(line, "#") and strings.CutPrefix(part, "platform:")
HasPrefix(str, piece) == Len(str) > 0 /\ str[1] = piece
CutPrefix(str, piece) ==
    IF HasPrefix(str, piece)
    THEN [after |-> SubSeq(str, 2, Len(str)), found |-> TRUE]
    ELSE [after |-> str, found |-> FALSE]

\* strings.Split(line, ","): the parts between the commas, at least one.
RECURSIVE Split(_, _)
Split(str, sep) ==
    LET RECURSIVE Index(_)
        Index(k) == IF k > Len(str) THEN 0
                    ELSE IF str[k] = sep THEN k ELSE Index(k + 1)
        i == Index(1)
    IN  IF i = 0 THEN <<str>>
        ELSE <<SubSeq(str, 1, i - 1)>> \o Split(SubSeq(str, i + 1, Len(str)), sep)

\* dbs[platform] += line + "\n" on a Go map: a missing key reads as "".
MapAppend(dbs, platform, str) ==
    IF platform \in DOMAIN dbs
    THEN [dbs EXCEPT ![platform] = @ \o str]
    ELSE dbs @@ (platform :> str)

\* A faulty loop over the parts: without the break, every part with the
\* prefix adds the line.
RECURSIVE splitPartsNoBreak(_, _, _, _)
splitPartsNoBreak(dbs, line, parts, k) ==
    IF k > Len(parts) THEN dbs
    ELSE LET c == CutPrefix(parts[k], "platform:")
         IN  IF c.found
             THEN splitPartsNoBreak(MapAppend(dbs, c.after, line \o <<LF>>),
                                    line, parts, k + 1)
             ELSE splitPartsNoBreak(dbs, line, parts, k + 1)

\* The loop over the parts of one line: the first part with the prefix
\* "platform:" decides, and ends the loop.
RECURSIVE splitParts(_, _, _, _)
splitParts(dbs, line, parts, k) ==
    IF k > Len(parts) THEN dbs
    ELSE LET c == CutPrefix(parts[k], "platform:")
         IN  IF c.found
             THEN MapAppend(dbs, c.after, line \o <<LF>>)
             ELSE splitParts(dbs, line, parts, k + 1)

\* The loop over the lines: a line starting with "#" is skipped.
RECURSIVE splitLines(_, _, _)
splitLines(dbs, lines, n) ==
    IF n > Len(lines) THEN dbs
    ELSE IF HasPrefix(lines[n], "#")
         THEN splitLines(dbs, lines, n + 1)
         ELSE splitLines(splitParts(dbs, lines[n], Split(lines[n], ","), 1),
                         lines, n + 1)

\* splitDBsByPlatform: the map from platform name to its lines, and the
\* error; the map is nil (empty) when the scanner reports an error.
splitDBsByPlatform(controllerDB) ==
    LET s == Scan(controllerDB)
        dbs == splitLines(<<>>, s.texts, 1)
    IN  IF s.err # NoError
        THEN [dbs |-> <<>>, err |-> s.err]
        ELSE [dbs |-> dbs, err |-> NoError]

\* run's platforms, by SDL platform name, with each one's filenameSuffix.
platforms ==
    (<<"Windows">> :> "windows") @@ (<<"Mac OS X">> :> "macos") @@
    (<<"Linux">> :> "linbsd") @@ (<<"iOS">> :> "ios") @@
    (<<"Android">> :> "android")

\* run: its possible outcomes. An error of splitDBsByPlatform is returned.
\* The platforms are visited in an order the map chooses: run fails at the
\* first one the database has no entry for, having written the files of
\* those visited before; with none missing it writes all. The file system
\* and the template are taken to work.
run(controllerDB) ==
    LET r == splitDBsByPlatform(controllerDB)
        missing == {n \in DOMAIN platforms : n \notin DOMAIN r.dbs}
        present == DOMAIN platforms \ missing
        files(S) == [n \in S |-> [name |-> platforms[n], text |-> r.dbs[n]]]
        out(err, S) == [err |-> err, files |-> files(S), split |-> r]
    IN  IF r.err # NoError THEN {out(<<r.err>>, {})}
        ELSE IF missing = {} THEN {out(<<NoError>>, present)}
        ELSE {out(<<"failed to find controller db for platform", m>>, S) :
                 m \in missing, S \in SUBSET present}

(* Bounds and inputs. *)

MaxLen == 4

Pieces == {"#", ",", "platform:", "Linux", LF, CR, Filler}

\* One well-formed line for platform n, as the database has them.
EntryLine(n) == <<"03000000">> \o <<",">> \o <<"platform:">> \o n \o <<",", LF>>

\* A database with an entry for each of run's platforms but those in skip.
Entries(skip) ==
    LET e(n) == IF n \in skip THEN <<>> ELSE EntryLine(n)
    IN  e(<<"Windows">>) \o e(<<"Mac OS X">>) \o e(<<"Linux">>)
            \o e(<<"iOS">>) \o e(<<"Android">>)

\* The databases tried: a head of entries and then any pieces, up to MaxLen.
Heads == {Entries(DOMAIN platforms), Entries({}), Entries({<<"Linux">>})}
Tails == UNION {[1..n -> Pieces] : n \in 0..MaxLen}
Databases == {h \o t : h \in Heads, t \in Tails}

DbIdle == /\ gameControllerDB = <<>>
          /\ controllerDBs = <<>>
          /\ splitErr = NoError
          /\ runResult = <<"none">>
          /\ written = <<>>
          /\ phase = "input"

CallSplitDBsByPlatform ==
    /\ phase = "input"
    /\ LET r == splitDBsByPlatform(gameControllerDB)
       IN  controllerDBs' = r.dbs /\ splitErr' = r.err
    /\ phase' = "split"
    /\ UNCHANGED <<gameControllerDB, runResult, written>>
    /\ UNCHANGED <<fbVars, imgVars>>

CallRun ==
    /\ phase = "input"
    /\ \E r \in run(gameControllerDB) :
          /\ controllerDBs' = r.split.dbs
          /\ splitErr' = r.split.err
          /\ runResult' = r.err
          /\ written' = r.files
    /\ phase' = "ran"
    /\ UNCHANGED gameControllerDB
    /\ UNCHANGED <<fbVars, imgVars>>

NextGamepadDB ==
    \/ CallSplitDBsByPlatform
    \/ CallRun

InitGamepadDB ==
    /\ FbIdle /\ ImgIdle
    /\ gameControllerDB \in Databases
    /\ controllerDBs = <<>>
    /\ splitErr = NoError
    /\ runResult = <<"none">>
    /\ written = <<>>
    /\ phase = "input"
SpecGamepadDB == InitGamepadDB /\ [][NextGamepadDB]_vars

InitFramebuffer == FbIdle /\ ImgIdle /\ DbIdle
SpecFramebuffer == InitFramebuffer /\ [][NextFramebuffer]_vars

InitRestorable == FbIdle /\ ImgIdle /\ DbIdle
SpecRestorable == InitRestorable /\ [][NextRestorable]_vars

\* A program that uses one of the two image layers: the framebuffers, or the
\* restorable images. The two share no state.
NoImageYet == images = <<>> /\ imgStatus = "running"
NoFramebufferYet == fbs = <<>> /\ fbLast.op = "none"
NextGraphics ==
    \/ (NoImageYet /\ CallNewZeroFramebuffer)
    \/ (NoImageYet /\ CallNewFramebufferFromTexture)
    \/ (NoImageYet /\ CallSize)
    \/ (NoImageYet /\ CallDispose)
    \/ (NoImageYet /\ CallFill)
    \/ (NoImageYet /\ CallDrawTexture)
    \/ (NoImageYet /\ CallPixels)
    \/ (NoFramebufferYet /\ CallNewImage)
    \/ (NoFramebufferYet /\ CallClearPixels)
InitGraphics == FbIdle /\ ImgIdle /\ DbIdle
SpecGraphics == InitGraphics /\ [][NextGraphics]_vars

--------------------------------------------------------------------------
(* The claims about the framebuffers. *)

\* The operation fbLast records and the Framebuffer it was called on.
LastCalls == fbLast.calls
LastFb == fbs[fbLast.fb]
CallsNamed(names) == {k \in DOMAIN LastCalls : LastCalls[k].call \in names}
DrawingCalls == CallsNamed({"FillFramebuffer", "drawTexture"})

\* C4: a driver failure is propagated and never retried. In Fill and
\* DrawTexture, a failed SetViewport makes the operation return that same
\* error with no fill or draw call issued; an operation issues at most one
\* SetViewport and at most one fill or draw call; NewFramebufferFromTexture
\* returns no Framebuffer, and the driver's error, when the driver fails.
C4_DriverFailurePropagated ==
    /\ fbLast.op \in {"Fill", "DrawTexture"} =>
          /\ Cardinality(CallsNamed({"SetViewport"})) <= 1
          /\ Cardinality(DrawingCalls) <= 1
          /\ \A k \in CallsNamed({"SetViewport"}) :
                LastCalls[k].err # NoError =>
                    /\ fbLast.err = LastCalls[k].err
                    /\ DrawingCalls = {}
          /\ \A k \in DrawingCalls : fbLast.err = LastCalls[k].err
    /\ fbLast.op = "NewFramebufferFromTexture" =>
          /\ Cardinality(CallsNamed({"NewFramebuffer"})) = 1
          /\ \A k \in CallsNamed({"NewFramebuffer"}) :
                LastCalls[k].err # NoError =>
                    /\ fbLast.fb = 0
                    /\ fbLast.err = LastCalls[k].err

\* C4's case: a Fill whose SetViewport the driver failed.
C4_Witness ==
    /\ fbLast.op = "Fill"
    /\ fbLast.err = "errSetViewport"
    /\ Len(fbs) = 2

\* C5, as claimed: the operation that follows a Dispose of the same
\* Framebuffer fails with UseAfterDispose and issues no driver call.
C5_UseAfterDispose ==
    [][(fbLast.op = "Dispose" /\ fbLast' # fbLast /\ fbLast'.fb = fbLast.fb)
          => (fbLast'.err = "UseAfterDispose" /\ fbLast'.calls = <<>>)]_vars

\* C7, as claimed: every Framebuffer that exists has width > 0 and height > 0.
C7_DimensionsPositive ==
    \A i \in DOMAIN fbs : fbs[i].width > 0 /\ fbs[i].height > 0

\* C8: the default framebuffer is never deleted. A Framebuffer made by
\* NewZeroFramebuffer holds the default handle, for good, and no operation on
\* a Framebuffer holding it issues DeleteFramebuffer; Dispose of a Framebuffer
\* holding another handle issues DeleteFramebuffer on exactly that handle.
C8_DefaultNeverDeleted ==
    /\ [](/\ \A k \in CallsNamed({"DeleteFramebuffer"}) :
                LastCalls[k].native # ZeroFramebuffer
          /\ fbLast.op = "NewZeroFramebuffer" =>
                LastFb.native = ZeroFramebuffer
          /\ (fbLast.fb # 0 /\ LastFb.native = ZeroFramebuffer) =>
                CallsNamed({"DeleteFramebuffer"}) = {}
          /\ (fbLast.op = "Dispose" /\ LastFb.native # ZeroFramebuffer) =>
                LastCalls = <<[call |-> "DeleteFramebuffer",
                               native |-> LastFb.native]>>)
    /\ [][\A i \in DOMAIN fbs :
              i \in DOMAIN fbs' /\ fbs'[i].native = fbs[i].native]_vars

\* C8's case: Dispose called on a default Framebuffer while another
\* Framebuffer holds a handle of its own.
C8_Witness ==
    /\ fbLast.op = "Dispose"
    /\ LastFb.native = ZeroFramebuffer
    /\ \E i \in DOMAIN fbs : fbs[i].native # ZeroFramebuffer

\* C9: every fill or draw lands on the Framebuffer it was called on. The
\* operations run one at a time, so the driver sees their calls back to back:
\* each FillFramebuffer or draw call comes right after a SetViewport call that
\* succeeded and named the handle and the internal size of the Framebuffer
\* the operation was called on.
C9_ViewportBeforeDraw ==
    \A k \in DrawingCalls :
        /\ k > 1
        /\ LastCalls[k - 1].call = "SetViewport"
        /\ LastCalls[k - 1].err = NoError
        /\ LastCalls[k - 1].native = LastFb.native
        /\ LastCalls[k - 1].width >= LastFb.width
        /\ LastCalls[k - 1].height >= LastFb.height

\* C9's case: a draw on the second of two Framebuffers with different handles.
C9_Witness ==
    /\ Len(fbs) = 2
    /\ fbs[1].native # fbs[2].native
    /\ fbs[1].proMatrix # <<>>
    /\ fbLast.op = "DrawTexture"
    /\ fbLast.fb = 2
    /\ DrawingCalls # {}

\* C6: dimensions are immutable after creation. A Framebuffer or Image is
\* created with the width and height given (for a Framebuffer made from a
\* texture, the texture's), no operation changes the width or height stored,
\* and Size returns exactly the stored values.
C6_DimensionsImmutable ==
    /\ [](/\ fbLast.op = "NewZeroFramebuffer" =>
                <<LastFb.width, LastFb.height>> = fbLast.args
          /\ (fbLast.op = "NewFramebufferFromTexture" /\ fbLast.fb # 0) =>
                /\ LastFb.width = fbLast.args[1].width
                /\ LastFb.height = fbLast.args[1].height
          /\ fbLast.op = "Size" =>
                fbLast.ret = <<LastFb.width, LastFb.height>>
          /\ (imgLast.op = "NewImage" /\ imgLast.img # 0) =>
                /\ images[imgLast.img].width = imgLast.args[1]
                /\ images[imgLast.img].height = imgLast.args[2])
    /\ [][/\ \A i \in DOMAIN fbs :
                /\ i \in DOMAIN fbs'
                /\ fbs'[i].width = fbs[i].width
                /\ fbs'[i].height = fbs[i].height
          /\ \A k \in DOMAIN images :
                /\ k \in DOMAIN images'
                /\ images'[k].width = images[k].width
                /\ images'[k].height = images[k].height]_vars

\* C6's case: Size called on a Framebuffer that has been drawn to and
\* disposed, and whose size is not a power of two.
C6_Witness ==
    /\ fbLast.op = "Size"
    /\ LastFb.proMatrix # <<>>
    /\ LastFb.native \notin driverLive \cup {ZeroFramebuffer}
    /\ fbLast.ret = <<3, 2>>

--------------------------------------------------------------------------
(* The claims about the restorable images. *)

\* The pixels of a rectangle, and those of an Image's bounds (0,0,w,h).
PixelsOf(r) == (r.Min.X .. r.Max.X - 1) \X (r.Min.Y .. r.Max.Y - 1)
BoundsOf(i) == (0 .. i.width - 1) \X (0 .. i.height - 1)
LastCommand(q) == q[Len(q)]
AppendedOne(q, qNext) ==
    Len(qNext) = Len(q) + 1 /\ SubSeq(qNext, 1, Len(q)) = q

\* C1, as claimed: a ClearPixels whose region shares no pixel with the image
\* bounds reports no error (does not panic) and issues no draw.
C1_EmptyRegionIsNoOp ==
    (/\ imgLast.op = "ClearPixels"
     /\ PixelsOf(imgLast.args) \cap BoundsOf(images[imgLast.img]) = {})
        => (imgLast.outcome = "ok" /\ imgLast.issued = 0)

\* C1, amended: ClearPixels(region) panics when region has width <= 0 or
\* height <= 0, issuing no draw and leaving every image unchanged; when
\* region has positive width and height and shares no pixel with the image
\* bounds, it does not panic, leaves every image unchanged and issues exactly
\* one Clear draw on the image, whose destination is the empty rectangle
\* (0,0)-(0,0), so that no pixel is drawn.
C1_EmptyRegionPanicsOrClearsNothing ==
    [][imgLast'.op = "ClearPixels" =>
          LET region == imgLast'.args
              i == images[imgLast'.img]
              positive == /\ region.Max.X - region.Min.X > 0
                          /\ region.Max.Y - region.Min.Y > 0
          IN  /\ ~positive =>
                    /\ imgLast'.outcome = "panic"
                    /\ imgStatus' = "panicked"
                    /\ queue' = queue
                    /\ images' = images
              /\ (positive /\ PixelsOf(region) \cap BoundsOf(i) = {}) =>
                    /\ imgLast'.outcome = "ok"
                    /\ imgStatus' = "running"
                    /\ images' = images
                    /\ AppendedOne(queue, queue')
                    /\ LastCommand(queue').dst = i.Image.id
                    /\ LastCommand(queue').blend = "BlendClear"
                    /\ LastCommand(queue').dstRegion =
                           [Min |-> [X |-> 0, Y |-> 0],
                            Max |-> [X |-> 0, Y |-> 0]]]_vars

\* C1's case: ClearPixels has panicked on a region of non-positive width that
\* lies within the image.
C1_Witness ==
    /\ imgStatus = "panicked"
    /\ imgLast.op = "ClearPixels"
    /\ imgLast.args.Min.X = 1
    /\ imgLast.args.Max.X = 1
    /\ imgLast.args.Max.Y > imgLast.args.Min.Y

\* C2: a ClearPixels(region) with a region of positive width and height
\* issues exactly one draw, on the underlying image, with the Clear blend
\* mode and no source image, over a quad and a destination region that cover
\* the pixels of region within the image bounds and no others.
C2_ClearPixelsDrawsClipped ==
    [][(/\ imgLast'.op = "ClearPixels"
        /\ imgLast'.args.Max.X - imgLast'.args.Min.X > 0
        /\ imgLast'.args.Max.Y - imgLast'.args.Min.Y > 0) =>
          LET region == imgLast'.args
              i == images[imgLast'.img]
              c == LastCommand(queue')
          IN  /\ imgLast'.outcome = "ok"
              /\ AppendedOne(queue, queue')
              /\ c.dst = i.Image.id
              /\ c.blend = "BlendClear"
              /\ c.srcs = {}
              /\ PixelsOf(c.dstRegion) = PixelsOf(region) \cap BoundsOf(i)
              /\ PixelsOf(c.dstRegion) \subseteq BoundsOf(i)
              /\ c.vertices.dst = <<c.dstRegion.Min.X, c.dstRegion.Min.Y,
                                    c.dstRegion.Max.X, c.dstRegion.Max.Y>>]_vars

\* C2's case: a clear of the first of two images over a region that sticks
\* out of the image on the left and at the bottom.
C2_Witness ==
    /\ Len(images) = 2
    /\ imgLast.op = "ClearPixels"
    /\ imgLast.img = 1
    /\ imgLast.outcome = "ok"
    /\ imgLast.args.Min.X < 0
    /\ imgLast.args.Max.Y > images[1].height
    /\ PixelsOf(LastCommand(queue).dstRegion) # {}

\* C3: the image NewImage returns is cleared. The first command issued on its
\* underlying image is a Clear draw, with no source image, over the whole
\* internal region (0,0,iw,ih) given by InternalSize; it is in the queue when
\* NewImage returns, before any command a caller can issue on the image.
C3_NewImageCleared ==
    \A k \in DOMAIN images :
        LET mine == {j \in DOMAIN queue : queue[j].dst = images[k].Image.id}
            iwh == InternalSize(images[k].Image)
        IN  /\ mine # {}
            /\ \A j \in mine :
                  (\A j2 \in mine : j <= j2) =>
                      /\ queue[j].blend = "BlendClear"
                      /\ queue[j].srcs = {}
                      /\ queue[j].dstRegion =
                             [Min |-> [X |-> 0, Y |-> 0],
                              Max |-> [X |-> iwh[1], Y |-> iwh[2]]]
                      /\ queue[j].vertices.dst = <<0, 0, iwh[1], iwh[2]>>

\* C3's case: a screen image whose size is not a power of two, created second
\* and cleared by its caller afterwards.
C3_Witness ==
    /\ Len(images) = 2
    /\ images[2].Image.screen
    /\ images[2].width = 3
    /\ imgLast.op = "ClearPixels"
    /\ imgLast.img = 2
    /\ imgLast.outcome = "ok"

--------------------------------------------------------------------------
(* The claim about the gamepad database generator. *)

\* The lines of a text, told by where they start: at the start of the text
\* and after each line feed. With marker, a line is taken without the
\* carriage return that may come before its line feed.
LineStarts(text) == {b \in 1..Len(text) : b = 1 \/ text[b - 1] = LF}
LineAt(text, b, marker) ==
    LET e == CHOOSE e \in b..(Len(text) + 1) :
                 /\ e = Len(text) + 1 \/ text[e] = LF
                 /\ \A j \in b..(e - 1) : text[j] # LF
        cr == marker /\ e > b /\ text[e - 1] = CR
    IN  [j \in 1..(e - b - (IF cr THEN 1 ELSE 0)) |-> text[b + j - 1]]
LinesOf(text, marker) ==
    LET starts == LineStarts(text)
        nth(n) == CHOOSE b \in starts :
                      Cardinality({a \in starts : a < b}) = n - 1
    IN  [n \in 1..Cardinality(starts) |-> LineAt(text, nth(n), marker)]

\* The comma-separated fields of a line that start with "platform:", by
\* position, and the platform named by the first of them.
PlatformFields(line) ==
    {j \in DOMAIN line : line[j] = "platform:" /\ (j = 1 \/ line[j - 1] = ",")}
PlatformOf(line) ==
    LET j == CHOOSE j \in PlatformFields(line) :
                 \A j2 \in PlatformFields(line) : j <= j2
        e == CHOOSE e \in (j + 1)..(Len(line) + 1) :
                 /\ e = Len(line) + 1 \/ line[e] = ","
                 /\ \A m \in (j + 1)..(e - 1) : line[m] # ","
    IN  [m \in 1..(e - j - 1) |-> line[j + m]]
IsComment(line) == Len(line) > 0 /\ line[1] = "#"
Listed(line) == ~IsComment(line) /\ PlatformFields(line) # {}
ListedUnder(lines, name) ==
    LET under(line) == Listed(line) /\ PlatformOf(line) = name
    IN  SelectSeq(lines, under)

\* The platforms named by the lines of a database, and whether a map holds
\* under each of its platforms exactly the lines naming it, once each and in
\* their input order, each followed by a line feed.
PlatformsNamed(lines) ==
    {PlatformOf(lines[n]) : n \in {m \in DOMAIN lines : Listed(lines[m])}}
HoldsLinesOf(dbs, lines) ==
    \A name \in DOMAIN dbs :
        /\ LinesOf(dbs[name], FALSE) = ListedUnder(lines, name)
        /\ dbs[name][Len(dbs[name])] = LF

\* C10, as claimed: for every database, every line that is not a comment and
\* has a platform field appears exactly once in the map splitDBsByPlatform
\* returns, under the platform of its first such field and in input order;
\* comments and lines without a platform field appear nowhere.
C10_SplitPartitionsEveryDatabase ==
    phase \in {"split", "ran"} =>
        LET lines == LinesOf(gameControllerDB, TRUE)
        IN  /\ DOMAIN controllerDBs = PlatformsNamed(lines)
            /\ HoldsLinesOf(controllerDBs, lines)

\* C10, amended: splitDBsByPlatform returns an error, and no map, exactly
\* when some line of the database has 65536 bytes or more before its line
\* feed, and run then returns that error. Otherwise the platforms of the map
\* are those named by the first platform field of some line that is not a
\* comment; under each, the map holds exactly the lines naming it, once each
\* and in their input order, each without the carriage return before its
\* line feed and followed by a line feed; comments and lines without a
\* platform field are nowhere. run returns an error when one of its five
\* platforms has no entry.
C10_SplitPartitionsByPlatform ==
    phase \in {"split", "ran"} =>
        LET lines == LinesOf(gameControllerDB, TRUE)
            fits == \A b \in LineStarts(gameControllerDB) :
                        ByteLen(LineAt(gameControllerDB, b, FALSE)) <= 65535
        IN  /\ splitErr = NoError <=> fits
            /\ splitErr # NoError =>
                  /\ DOMAIN controllerDBs = {}
                  /\ phase = "ran" => runResult = <<splitErr>>
            /\ splitErr = NoError =>
                  /\ DOMAIN controllerDBs = PlatformsNamed(lines)
                  /\ HoldsLinesOf(controllerDBs, lines)
            /\ phase = "ran" =>
                  ((\E name \in {<<"Windows">>, <<"Mac OS X">>, <<"Linux">>,
                                 <<"iOS">>, <<"Android">>} :
                        name \notin DOMAIN controllerDBs)
                      => runResult # <<NoError>>)

\* C10's case: the database holds a comment and two lines for Linux, the
\* second of them ending the text without a line feed.
C10_Witness ==
    /\ phase = "split"
    /\ <<"Linux">> \in DOMAIN controllerDBs
    /\ Len(LinesOf(controllerDBs[<<"Linux">>], FALSE)) = 2
    /\ \E n \in DOMAIN LinesOf(gameControllerDB, TRUE) :
          IsComment(LinesOf(gameControllerDB, TRUE)[n])
    /\ gameControllerDB[Len(gameControllerDB)] # LF

====
